---------------------------- MODULE Spec2Model ----------------------------
(***************************************************************************)
(* Release automation of frida-manage: main.py decides whether a new       *)
(* project tag is released (util.py supplies the tag arithmetic) and       *)
(* build.py builds the module archive with one fill_module task per        *)
(* architecture.                                                           *)
(*                                                                         *)
(* A Python str is a sequence of one-character strings, so that split,     *)
(* int() and the format specifications are computed character by           *)
(* character: "16.1.4" is <<"1","6",".","1",".","4">>, '' is <<>>.         *)
(***************************************************************************)
EXTENDS Integers, Sequences, FiniteSets, TLC

VARIABLES
    github_latest,     \* tag_name of frida/frida's latest release (remote)
    git_tags,          \* the tags of the local git repository
    FORCE_RELEASE,     \* the environment variable, "unset" when absent
    cwd,               \* working directory: file name -> content
    downloads,         \* PATH_DOWNLOADS: file name -> content
    build_tmp,         \* PATH_BUILD_TMP: path -> content, <<>> when absent
    build_dir,         \* PATH_BUILD files other than tmp: name -> content
    pc,                \* position of main()
    last_frida_tag, last_project_tag, new_project_tag,
    force_release, needs_update,
    i,                 \* get_next_revision's counter
    task,              \* future of each architecture's fill_module
    task_exc,          \* the exception a future holds
    seen,              \* futures as_completed has yielded to do_build
    raised             \* the exception main() ended with

vars == <<github_latest, git_tags, FORCE_RELEASE, cwd, downloads, build_tmp,
          build_dir, pc, last_frida_tag, last_project_tag, new_project_tag,
          force_release, needs_update, i, task, task_exc, seen, raised>>

(***************************************************************************)
(* Bounds of the model.                                                    *)
(***************************************************************************)
\* revisions <tag>-1 .. <tag>-MaxRevision may already be tagged locally
MaxRevision == 2
\* most tags the local repository holds
MaxLocalTags == 3

(***************************************************************************)
(* Characters and integers.                                                *)
(***************************************************************************)
Digits == <<"0", "1", "2", "3", "4", "5", "6", "7", "8", "9">>

DigitVal(c) ==
    CASE c = "0" -> 0 [] c = "1" -> 1 [] c = "2" -> 2 [] c = "3" -> 3
      [] c = "4" -> 4 [] c = "5" -> 5 [] c = "6" -> 6 [] c = "7" -> 7
      [] c = "8" -> 8 [] c = "9" -> 9

\* byte value of a character, the order git lists refnames in
CharCode(c) ==
    IF c = "-" THEN 45 ELSE IF c = "." THEN 46 ELSE 48 + DigitVal(c)

\* int(part) of a decimal digit string
RECURSIVE int(_)
int(part) ==
    IF Len(part) = 0 THEN 0
    ELSE 10 * int(SubSeq(part, 1, Len(part) - 1)) + DigitVal(part[Len(part)])

\* str(n) for n >= 0
RECURSIVE str(_)
str(n) ==
    IF n < 10 THEN <<Digits[n + 1]>>
    ELSE str(n \div 10) \o <<Digits[(n % 10) + 1]>>

\* variant: f"{n}", no zero fill
NoPadFormat(n) == str(n)

\* f"{n:02d}": at least two digits, zero filled on the left
Format02d(n) == IF n < 10 THEN <<"0">> \o str(n) ELSE str(n)

(***************************************************************************)
(* util.py                                                                 *)
(***************************************************************************)
\* tag.split('-', 1)[0]
strip_revision(tag) ==
    LET dashes == {k \in 1..Len(tag) : tag[k] = "-"}
    IN  IF dashes = {} THEN tag
        ELSE SubSeq(tag, 1, (CHOOSE k \in dashes : \A m \in dashes : k <= m) - 1)

\* re.split(r"[\.-]", s)
RECURSIVE re_split(_)
re_split(s) ==
    LET seps == {k \in 1..Len(s) : s[k] \in {".", "-"}}
    IN  IF seps = {} THEN <<s>>
        ELSE LET k == CHOOSE x \in seps : \A m \in seps : x <= m
             IN  <<SubSeq(s, 1, k - 1)>> \o re_split(SubSeq(s, k + 1, Len(s)))

\* the sort key of sort_tags: list(map(int, re.split(r"[\.-]", s)))
SortKey(s) == LET parts == re_split(s)
              IN  [k \in 1..Len(parts) |-> int(parts[k])]

\* Python's < on two lists of int
ListLess(a, b) ==
    \/ \E k \in 1..Len(a) :
          /\ k <= Len(b)
          /\ a[k] < b[k]
          /\ \A m \in 1..(k - 1) : a[m] = b[m]
    \/ /\ Len(a) < Len(b)
       /\ \A m \in 1..Len(a) : a[m] = b[m]

\* Python's < on two str over the tag alphabet
StrLess(a, b) ==
    ListLess([k \in 1..Len(a) |-> CharCode(a[k])],
             [k \in 1..Len(b) |-> CharCode(b[k])])

\* list.sort(key=...) is stable: x goes behind every element not greater
\* than it
RECURSIVE InsertByKey(_, _)
InsertByKey(x, sorted) ==
    IF sorted = <<>> THEN <<x>>
    ELSE IF ListLess(SortKey(x), SortKey(Head(sorted)))
         THEN <<x>> \o sorted
         ELSE <<Head(sorted)>> \o InsertByKey(x, Tail(sorted))

\* variant: the same insertion by plain string order
RECURSIVE InsertByStr(_, _)
InsertByStr(x, sorted) ==
    IF sorted = <<>> THEN <<x>>
    ELSE IF StrLess(x, Head(sorted))
         THEN <<x>> \o sorted
         ELSE <<Head(sorted)>> \o InsertByStr(x, Tail(sorted))

\* variant: tags.sort() without the key
RECURSIVE LexSortTags(_)
LexSortTags(tags) ==
    IF tags = <<>> THEN <<>>
    ELSE InsertByStr(tags[Len(tags)], LexSortTags(SubSeq(tags, 1, Len(tags) - 1)))

\* tags.copy() sorted by SortKey
RECURSIVE sort_tags(_)
sort_tags(tags) ==
    IF tags = <<>> THEN <<>>
    ELSE InsertByKey(tags[Len(tags)], sort_tags(SubSeq(tags, 1, Len(tags) - 1)))

\* exec_git_command(["tag", "-l"] + filter_args).splitlines(): the tags that
\* match one of the patterns (every tag when there is none), in refname order
RECURSIVE RefnameOrder(_)
RefnameOrder(S) ==
    IF S = {} THEN <<>>
    ELSE LET first == CHOOSE t \in S : \A u \in S : u = t \/ StrLess(t, u)
         IN  <<first>> \o RefnameOrder(S \ {first})

exec_git_command(filter_args) ==
    RefnameOrder({t \in git_tags :
                     \/ filter_args = <<>>
                     \/ \E k \in 1..Len(filter_args) : filter_args[k] = t})

get_last_tag(filter_args) ==
    LET tags == exec_git_command(filter_args)
    IN  IF Len(tags) < 1 THEN <<>> ELSE sort_tags(tags)[Len(tags)]

get_last_project_tag == get_last_tag(<<>>)

get_last_frida_tag == github_latest

\* f"{current_tag}-{i}"
RevisionTag(current_tag, n) == current_tag \o <<"-">> \o str(n)


(***************************************************************************)
(* Files.  A directory is a function from names to contents; a name is a   *)
(* tuple of the pieces the code formats it from.                           *)
(***************************************************************************)
WriteFile(dir, name, content) ==
    [n \in (DOMAIN dir) \cup {name} |-> IF n = name THEN content ELSE dir[n]]

NoDir == <<>>

NEW_TAG_txt == <<"NEW_TAG.txt">>

\* archs of do_build
Archs == {"arm", "arm64", "x86", "x86_64"}

\* frida_server of fill_module: f"frida-server-{frida_tag}-android-{arch}.xz"
FridaServerXz(frida_tag, arch) ==
    <<"frida-server-", frida_tag, "-android-", arch, ".xz">>

\* frida_download_url + frida_server
DownloadUrl(frida_tag, arch) ==
    <<"https://github.com/frida/frida/releases/download/", frida_tag, "/",
      FridaServerXz(frida_tag, arch)>>

\* the single-file xz asset the release host publishes under a URL
ReleaseAsset(url) == [kind |-> "xz", tag |-> url[4][2], arch |-> url[4][4]]

Garbage == [kind |-> "garbage", tag |-> <<>>, arch |-> ""]

\* what requests.get(url) may answer
Responses(url) ==
    {[status |-> 200, content |-> ReleaseAsset(url)],
     [status |-> 200, content |-> Garbage],
     [status |-> 404, content |-> Garbage]}

\* lzma.open(archive_path).read() of a well-formed archive
Decompress(xz) == [kind |-> "elf", tag |-> xz.tag, arch |-> xz.arch]

NoException == [type |-> "None", arch |-> ""]

\* variant: one staging name for every architecture
SharedDestPath(arch) == [dir |-> "files", name |-> <<"frida-server">>]

\* files_dir.joinpath(f"frida-server-{arch}") below PATH_BUILD_TMP
DestPath(arch) == [dir |-> "files", name |-> <<"frida-server-", arch>>]

ModulePropPath == [dir |-> "", name |-> <<"module.prop">>]

\* PATH_BASE_MODULE, the template tree copied into the staging tree
BaseModule ==
    [p \in {ModulePropPath,
            [dir |-> "", name |-> <<"service.sh">>],
            [dir |-> "files", name |-> <<".gitkeep">>],
            [dir |-> "system/bin", name |-> <<"placeholder">>]} |-> "template"]

ZipName(project_tag) == <<"MagiskFrida-", project_tag, ".zip">>

UpdaterJson == <<"updater.json">>

(***************************************************************************)
(* build.py                                                                *)
(***************************************************************************)
RECURSIVE Concat(_)
Concat(parts) == IF parts = <<>> THEN <<>> ELSE Head(parts) \o Concat(Tail(parts))

\* variant: the components joined without the zero fill
generate_version_code_nopad(project_tag) ==
    LET parts == re_split(project_tag)
    IN  int(Concat([k \in 1..Len(parts) |-> NoPadFormat(int(parts[k]))]))

\* "".join(f"{int(part):02d}" for part in parts), read as an int
generate_version_code(project_tag) ==
    LET parts == re_split(project_tag)
    IN  int(Concat([k \in 1..Len(parts) |-> Format02d(int(parts[k]))]))

\* the text create_module_prop writes, one field per key=value line
ModuleProp(project_tag) ==
    [id          |-> "magisk-frida",
     name        |-> "MagiskFrida",
     version     |-> project_tag,
     versionCode |-> generate_version_code(project_tag),
     author      |-> "ViRb3 & enovella",
     updateJson  |-> "https://github.com/ViRb3/magisk-frida/releases/latest/download/updater.json",
     description |-> "Run frida-server on boot"]

\* the dict create_updater_json dumps
Updater(project_tag) ==
    [version     |-> project_tag,
     versionCode |-> generate_version_code(project_tag),
     zipUrl      |-> <<"https://github.com/ViRb3/magisk-frida/releases/download/",
                       project_tag, "/", ZipName(project_tag)>>,
     changelog   |-> "https://raw.githubusercontent.com/ViRb3/magisk-frida/master/CHANGELOG.md"]

\* create_module: rmtree, copytree of the template, module.prop
create_module(project_tag) ==
    WriteFile(BaseModule, ModulePropPath, ModuleProp(project_tag))

\* the zip package_module writes: every file of the staging tree but the
\* placeholders, under its path relative to the tree
ZipOf(tree) ==
    [kind    |-> "zip",
     entries |-> [p \in {q \in DOMAIN tree :
                            q.name \notin {<<"placeholder">>, <<".gitkeep">>}}
                    |-> tree[p]]]


(***************************************************************************)
(* The environments a run starts in.                                       *)
(***************************************************************************)
Tag_16_1_4 == <<"1", "6", ".", "1", ".", "4">>

Tag_1_100 == <<"1", ".", "1", "0", "0">>

Tag_16_1_3_1 == <<"1", "6", ".", "1", ".", "3", "-", "1">>

Tag_1_2 == <<"1", ".", "2">>

Tag_1_9 == <<"1", ".", "9">>

Tag_1_10 == <<"1", ".", "1", "0">>

Tag_1_09 == <<"1", ".", "0", "9">>

Sentinel == <<"0">>

FridaReleases == {Tag_16_1_4, Tag_1_100}

\* tags earlier releases of the project left in the repository
LocalTagPool ==
    {RevisionTag(u, n) : u \in FridaReleases, n \in 1..MaxRevision}
        \cup {Tag_16_1_3_1, Tag_1_2, Tag_1_9, Tag_1_10}

\* the same and more, for the runs of the release decision alone
WideTagPool ==
    {RevisionTag(u, n) : u \in FridaReleases \cup {Tag_1_10}, n \in 1..MaxRevision}
        \cup {Tag_16_1_3_1, Tag_1_2, Tag_1_9, Tag_1_10, Tag_1_09}

SmallTagPool ==
    {Tag_16_1_3_1} \cup {RevisionTag(Tag_16_1_4, n) : n \in 1..MaxRevision}

\* the download cache earlier builds of the same frida tag left
CacheOf(frida_tag, cached) ==
    [n \in {FridaServerXz(frida_tag, a) : a \in cached}
        |-> ReleaseAsset(DownloadUrl(frida_tag, n[4]))]

InitRun ==
    /\ cwd = <<>>
    /\ build_tmp = NoDir
    /\ build_dir = <<>>
    /\ pc = "main"
    /\ last_frida_tag = <<>>
    /\ last_project_tag = <<>>
    /\ new_project_tag = <<>>
    /\ force_release = FALSE
    /\ needs_update = FALSE
    /\ i = 0
    /\ task = [a \in Archs |-> "unsubmitted"]
    /\ task_exc = [a \in Archs |-> NoException]
    /\ seen = {}
    /\ raised = NoException

\* any state of the download cache, a small repository
Init ==
    /\ github_latest = Tag_16_1_4
    /\ git_tags \in SUBSET SmallTagPool
    /\ FORCE_RELEASE \in {"unset", "TRUE"}
    /\ \E cached \in SUBSET Archs : downloads = CacheOf(github_latest, cached)
    /\ InitRun

\* any repository of at most MaxLocalTags tags, the download cache filled
InitTags ==
    /\ github_latest \in FridaReleases
    /\ git_tags \in {S \in SUBSET LocalTagPool : Cardinality(S) <= MaxLocalTags}
    /\ FORCE_RELEASE \in {"unset", "TRUE"}
    /\ downloads = CacheOf(github_latest, Archs)
    /\ InitRun

\* any repository of at most MaxLocalTags tags and any value of the variable
InitDecision ==
    /\ github_latest \in FridaReleases \cup {Tag_1_10}
    /\ git_tags \in {S \in SUBSET WideTagPool : Cardinality(S) <= MaxLocalTags}
    /\ FORCE_RELEASE \in {"unset", "false", "true", "TRUE", "1"}
    /\ downloads = <<>>
    /\ InitRun

(***************************************************************************)
(* main.py                                                                 *)
(***************************************************************************)
\* os.getenv('FORCE_RELEASE', 'false').lower()
GetenvLower ==
    CASE FORCE_RELEASE = "unset" -> "false"
      [] FORCE_RELEASE = "TRUE"  -> "true"
      [] OTHER                   -> FORCE_RELEASE

\* variant: the force flag is not consulted
main_decide_unforced ==
    /\ pc = "main"
    /\ last_frida_tag' = get_last_frida_tag
    /\ last_project_tag' = get_last_project_tag
    /\ new_project_tag' = Sentinel
    /\ force_release' = (GetenvLower = "true")
    /\ needs_update' = (get_last_frida_tag # strip_revision(get_last_project_tag))
    /\ IF needs_update'
       THEN pc' = "get_next_revision" /\ i' = 1
       ELSE pc' = "do_build" /\ i' = i
    /\ UNCHANGED <<github_latest, git_tags, FORCE_RELEASE, cwd, downloads,
                   build_tmp, build_dir, task, task_exc, seen, raised>>

\* variant: the else branch returns without building
main_decide_return ==
    /\ pc = "main"
    /\ last_frida_tag' = get_last_frida_tag
    /\ last_project_tag' = get_last_project_tag
    /\ new_project_tag' = Sentinel
    /\ force_release' = (GetenvLower = "true")
    /\ needs_update' = (get_last_frida_tag # strip_revision(get_last_project_tag))
    /\ IF needs_update' \/ force_release'
       THEN pc' = "get_next_revision" /\ i' = 1
       ELSE pc' = "done" /\ i' = i
    /\ UNCHANGED <<github_latest, git_tags, FORCE_RELEASE, cwd, downloads,
                   build_tmp, build_dir, task, task_exc, seen, raised>>

\* main() up to the decision: lines 9-26 and the else branch
main_decide ==
    /\ pc = "main"
    /\ last_frida_tag' = get_last_frida_tag
    /\ last_project_tag' = get_last_project_tag
    /\ new_project_tag' = Sentinel
    /\ force_release' = (GetenvLower = "true")
    /\ needs_update' = (get_last_frida_tag # strip_revision(get_last_project_tag))
    /\ IF needs_update' \/ force_release'
       THEN pc' = "get_next_revision" /\ i' = 1
       ELSE pc' = "do_build" /\ i' = i
    /\ UNCHANGED <<github_latest, git_tags, FORCE_RELEASE, cwd, downloads,
                   build_tmp, build_dir, task, task_exc, seen, raised>>

\* variant: the tag returned is one revision behind the tag probed
get_next_revision_off_by_one ==
    /\ pc = "get_next_revision"
    /\ IF get_last_tag(<<RevisionTag(last_frida_tag, i)>>) = <<>>
       THEN /\ new_project_tag' = RevisionTag(last_frida_tag, i + 1)
            /\ pc' = "write_marker"
            /\ i' = i
       ELSE /\ i' = i + 1
            /\ UNCHANGED <<new_project_tag, pc>>
    /\ UNCHANGED <<github_latest, git_tags, FORCE_RELEASE, cwd, downloads,
                   build_tmp, build_dir, last_frida_tag, last_project_tag,
                   force_release, needs_update, task, task_exc, seen, raised>>

\* variant: the probe lists every tag instead of the candidate
get_next_revision_latest ==
    /\ pc = "get_next_revision"
    /\ IF get_last_tag(<<>>) = <<>>
       THEN /\ new_project_tag' = RevisionTag(last_frida_tag, i)
            /\ pc' = "write_marker"
            /\ i' = i
       ELSE /\ i' = i + 1
            /\ UNCHANGED <<new_project_tag, pc>>
    /\ UNCHANGED <<github_latest, git_tags, FORCE_RELEASE, cwd, downloads,
                   build_tmp, build_dir, last_frida_tag, last_project_tag,
                   force_release, needs_update, task, task_exc, seen, raised>>

\* one turn of get_next_revision's loop, returning into main line 30
get_next_revision ==
    /\ pc = "get_next_revision"
    /\ IF get_last_tag(<<RevisionTag(last_frida_tag, i)>>) = <<>>
       THEN /\ new_project_tag' = RevisionTag(last_frida_tag, i)
            /\ pc' = "write_marker"
            /\ i' = i
       ELSE /\ i' = i + 1
            /\ UNCHANGED <<new_project_tag, pc>>
    /\ UNCHANGED <<github_latest, git_tags, FORCE_RELEASE, cwd, downloads,
                   build_tmp, build_dir, last_frida_tag, last_project_tag,
                   force_release, needs_update, task, task_exc, seen, raised>>

\* variant: the upstream tag is written
write_marker_frida_tag ==
    /\ pc = "write_marker"
    /\ cwd' = WriteFile(cwd, NEW_TAG_txt, last_frida_tag)
    /\ pc' = "do_build"
    /\ UNCHANGED <<github_latest, git_tags, FORCE_RELEASE, downloads, build_tmp,
                   build_dir, last_frida_tag, last_project_tag, new_project_tag,
                   force_release, needs_update, i, task, task_exc, seen, raised>>

\* main lines 31-44: the prints and open("NEW_TAG.txt", "w").write(...)
write_marker ==
    /\ pc = "write_marker"
    /\ cwd' = WriteFile(cwd, NEW_TAG_txt, new_project_tag)
    /\ pc' = "do_build"
    /\ UNCHANGED <<github_latest, git_tags, FORCE_RELEASE, downloads, build_tmp,
                   build_dir, last_frida_tag, last_project_tag, new_project_tag,
                   force_release, needs_update, i, task, task_exc, seen, raised>>


(***************************************************************************)
(* build.py: do_build(last_frida_tag, new_project_tag)                     *)
(***************************************************************************)
\* do_build lines 209-230: the mkdirs, create_module and the four submits
do_build ==
    /\ pc = "do_build"
    /\ build_tmp' = create_module(new_project_tag)
    /\ task' = [a \in Archs |-> "download"]
    /\ pc' = "as_completed"
    /\ UNCHANGED <<github_latest, git_tags, FORCE_RELEASE, cwd, downloads,
                   build_dir, last_frida_tag, last_project_tag, new_project_tag,
                   force_release, needs_update, i, task_exc, seen, raised>>

\* fill_module up to download_file's return or raise
download_file(arch) ==
    /\ task[arch] = "download"
    /\ LET url  == DownloadUrl(last_frida_tag, arch)
           path == FridaServerXz(last_frida_tag, arch)
       IN  IF path \in DOMAIN downloads
           THEN /\ task' = [task EXCEPT ![arch] = "extract"]
                /\ UNCHANGED <<downloads, task_exc>>
           ELSE \E r \in Responses(url) :
                   IF r.status # 200
                   THEN /\ task' = [task EXCEPT ![arch] = "finished"]
                        /\ task_exc' = [task_exc EXCEPT
                               ![arch] = [type |-> "HTTPError", arch |-> arch]]
                        /\ UNCHANGED downloads
                   ELSE /\ downloads' = WriteFile(downloads, path, r.content)
                        /\ task' = [task EXCEPT ![arch] = "extract"]
                        /\ UNCHANGED task_exc
    /\ UNCHANGED <<github_latest, git_tags, FORCE_RELEASE, cwd, build_tmp,
                   build_dir, pc, last_frida_tag, last_project_tag,
                   new_project_tag, force_release, needs_update, i, seen, raised>>

\* variant: every task extracts to the same staging file
extract_file_shared(arch) ==
    /\ task[arch] = "extract"
    /\ LET xz == downloads[FridaServerXz(last_frida_tag, arch)]
       IN  IF xz.kind # "xz"
           THEN /\ task_exc' = [task_exc EXCEPT
                       ![arch] = [type |-> "LZMAError", arch |-> arch]]
                /\ UNCHANGED build_tmp
           ELSE /\ build_tmp' = WriteFile(build_tmp, SharedDestPath(arch), Decompress(xz))
                /\ UNCHANGED task_exc
    /\ task' = [task EXCEPT ![arch] = "finished"]
    /\ UNCHANGED <<github_latest, git_tags, FORCE_RELEASE, cwd, downloads,
                   build_dir, pc, last_frida_tag, last_project_tag,
                   new_project_tag, force_release, needs_update, i, seen, raised>>

\* the rest of fill_module: files_dir.mkdir and extract_file
extract_file(arch) ==
    /\ task[arch] = "extract"
    /\ LET xz == downloads[FridaServerXz(last_frida_tag, arch)]
       IN  IF xz.kind # "xz"
           THEN /\ task_exc' = [task_exc EXCEPT
                       ![arch] = [type |-> "LZMAError", arch |-> arch]]
                /\ UNCHANGED build_tmp
           ELSE /\ build_tmp' = WriteFile(build_tmp, DestPath(arch), Decompress(xz))
                /\ UNCHANGED task_exc
    /\ task' = [task EXCEPT ![arch] = "finished"]
    /\ UNCHANGED <<github_latest, git_tags, FORCE_RELEASE, cwd, downloads,
                   build_dir, pc, last_frida_tag, last_project_tag,
                   new_project_tag, force_release, needs_update, i, seen, raised>>

\* variant: the future's exception is not looked at
as_completed_ignoring(arch) ==
    /\ pc = "as_completed"
    /\ arch \notin seen
    /\ task[arch] = "finished"
    /\ seen' = seen \cup {arch}
    /\ UNCHANGED <<pc, raised>>
    /\ UNCHANGED <<github_latest, git_tags, FORCE_RELEASE, cwd, downloads,
                   build_tmp, build_dir, last_frida_tag, last_project_tag,
                   new_project_tag, force_release, needs_update, i, task, task_exc>>

\* variant: a failure removes what main wrote before the build
as_completed_rollback(arch) ==
    /\ pc = "as_completed"
    /\ arch \notin seen
    /\ task[arch] = "finished"
    /\ seen' = seen \cup {arch}
    /\ IF task_exc[arch] # NoException
       THEN pc' = "raised" /\ raised' = task_exc[arch] /\ cwd' = <<>>
       ELSE UNCHANGED <<pc, raised, cwd>>
    /\ UNCHANGED <<github_latest, git_tags, FORCE_RELEASE, downloads,
                   build_tmp, build_dir, last_frida_tag, last_project_tag,
                   new_project_tag, force_release, needs_update, i, task, task_exc>>

\* one turn of the loop over as_completed(futures), lines 233-235
as_completed(arch) ==
    /\ pc = "as_completed"
    /\ arch \notin seen
    /\ task[arch] = "finished"
    /\ seen' = seen \cup {arch}
    /\ IF task_exc[arch] # NoException
       THEN pc' = "raised" /\ raised' = task_exc[arch]
       ELSE UNCHANGED <<pc, raised>>
    /\ UNCHANGED <<github_latest, git_tags, FORCE_RELEASE, cwd, downloads,
                   build_tmp, build_dir, last_frida_tag, last_project_tag,
                   new_project_tag, force_release, needs_update, i, task, task_exc>>

\* package_module, once the loop has seen every future: the zip, then rmtree
package_module ==
    /\ pc = "as_completed"
    /\ seen = Archs
    /\ build_dir' = WriteFile(build_dir, ZipName(new_project_tag), ZipOf(build_tmp))
    /\ build_tmp' = NoDir
    /\ pc' = "create_updater_json"
    /\ UNCHANGED <<github_latest, git_tags, FORCE_RELEASE, cwd, downloads,
                   last_frida_tag, last_project_tag, new_project_tag,
                   force_release, needs_update, i, task, task_exc, seen, raised>>

\* create_updater_json and the return of do_build and main
create_updater_json ==
    /\ pc = "create_updater_json"
    /\ build_dir' = WriteFile(build_dir, UpdaterJson, Updater(new_project_tag))
    /\ pc' = "done"
    /\ UNCHANGED <<github_latest, git_tags, FORCE_RELEASE, cwd, downloads,
                   build_tmp, last_frida_tag, last_project_tag, new_project_tag,
                   force_release, needs_update, i, task, task_exc, seen, raised>>

Next ==
    \/ main_decide
    \/ get_next_revision
    \/ write_marker
    \/ do_build
    \/ \E arch \in Archs : download_file(arch)
    \/ \E arch \in Archs : extract_file(arch)
    \/ \E arch \in Archs : as_completed(arch)
    \/ package_module
    \/ create_updater_json

Spec == Init /\ [][Next]_vars

SpecTags == InitTags /\ [][Next]_vars

\* the release decision of main(), lines 9-47, over more repositories
NextDecision ==
    \/ main_decide
    \/ get_next_revision
    \/ write_marker

SpecDecision == InitDecision /\ [][NextDecision]_vars


(***************************************************************************)
(* Vocabulary of the properties.                                           *)
(***************************************************************************)
Decided == pc \notin {"main", "get_next_revision"}

MarkerStepDone == pc \notin {"main", "get_next_revision", "write_marker"}

Release == needs_update \/ force_release

\* the base version of a tag: its longest prefix that holds no "-"
BaseVersion(tag) ==
    LET clean == {n \in 0..Len(tag) : \A k \in 1..n : tag[k] # "-"}
    IN  SubSeq(tag, 1, CHOOSE n \in clean : \A m \in clean : m <= n)

\* the first revision of base that the local repository does not hold
FirstFree(base) ==
    CHOOSE n \in 1..(Cardinality(git_tags) + 1) :
        /\ RevisionTag(base, n) \notin git_tags
        /\ \A j \in 1..(n - 1) : RevisionTag(base, j) \in git_tags

KeyLeq(a, b) == ~ListLess(SortKey(b), SortKey(a))

ToSet(seq) == {seq[k] : k \in 1..Len(seq)}

\* decimal width of a component in the version code: two digits at least
Width(c) == IF c < 100 THEN 100 ELSE IF c < 1000 THEN 1000 ELSE 10000

RECURSIVE PaddedCode(_)
PaddedCode(comps) ==
    IF comps = <<>> THEN 0
    ELSE PaddedCode(SubSeq(comps, 1, Len(comps) - 1)) * Width(comps[Len(comps)])
             + comps[Len(comps)]

HasZip == ZipName(new_project_tag) \in DOMAIN build_dir

HasUpdater == UpdaterJson \in DOMAIN build_dir

HasMarker == NEW_TAG_txt \in DOMAIN cwd

Failed(a) == task_exc[a] # NoException

\* the binary the release host publishes for an architecture, decompressed
Binary(a) == [kind |-> "elf", tag |-> github_latest, arch |-> a]

\* the staging files of an entry set that lie below files/
FilesOf(entries) == {p \in DOMAIN entries : p.dir = "files"}

\* the reimplementation's probe limit, scaled to the revisions of the model
RevisionLimit == MaxRevision

AllRevisionsTaken ==
    \A n \in 1..RevisionLimit : RevisionTag(github_latest, n) \in git_tags

(***************************************************************************)
(* C1: needs_update is (upstream tag # base version of the latest local    *)
(* tag); when needs_update or the force flag holds the new tag is the      *)
(* next free revision of the upstream tag, otherwise it is the sentinel    *)
(* "0".                                                                    *)
(***************************************************************************)
C1_Decision ==
    Decided =>
        /\ last_frida_tag = github_latest
        /\ force_release = (FORCE_RELEASE \in {"true", "TRUE", "True"})
        /\ needs_update = (github_latest # BaseVersion(last_project_tag))
        /\ IF needs_update \/ force_release
           THEN new_project_tag = RevisionTag(github_latest, FirstFree(github_latest))
           ELSE new_project_tag = Sentinel

C1_Witness ==
    /\ pc = "do_build"
    /\ ~needs_update
    /\ force_release
    /\ github_latest = Tag_16_1_4
    /\ last_project_tag = RevisionTag(Tag_16_1_4, 1)
    /\ new_project_tag = RevisionTag(Tag_16_1_4, 2)

(***************************************************************************)
(* C2: get_next_revision returns base-i for the smallest i >= 1 whose tag  *)
(* is not in the local tag set; base-1 when the set is empty.              *)
(***************************************************************************)
C2_NextRevision ==
    (Decided /\ Release) =>
        /\ \E n \in 1..(Cardinality(git_tags) + 1) :
              /\ new_project_tag = RevisionTag(last_frida_tag, n)
              /\ new_project_tag \notin git_tags
              /\ \A j \in 1..(n - 1) : RevisionTag(last_frida_tag, j) \in git_tags
        /\ git_tags = {} => new_project_tag = RevisionTag(last_frida_tag, 1)

C2_Witness ==
    /\ Decided
    /\ Release
    /\ RevisionTag(Tag_16_1_4, 1) \in git_tags
    /\ RevisionTag(Tag_16_1_4, 2) \in git_tags
    /\ new_project_tag = RevisionTag(Tag_16_1_4, 3)

(***************************************************************************)
(* C3 as stated: the search is bounded, and when every revision up to the  *)
(* bound is already tagged it fails with RevisionExhausted instead of      *)
(* probing on.                                                             *)
(***************************************************************************)
C3_Original ==
    /\ (pc = "get_next_revision" => i <= RevisionLimit)
    /\ (Decided /\ Release /\ AllRevisionsTaken) => raised.type = "RevisionExhausted"

(***************************************************************************)
(* C3 amended: the search has no bound of its own and never fails; it      *)
(* ends because the tag set is finite: it has found revisions 1..i-1       *)
(* tagged, so it probes at most (number of local tags) + 1 revisions, and  *)
(* with revisions 1..N all tagged it returns revision N+1.                 *)
(***************************************************************************)
C3_Amended ==
    /\ raised.type # "RevisionExhausted"
    /\ pc = "get_next_revision" =>
          /\ i \in 1..(Cardinality(git_tags) + 1)
          /\ \A j \in 1..(i - 1) : RevisionTag(last_frida_tag, j) \in git_tags
    /\ (Decided /\ Release /\ AllRevisionsTaken) =>
          /\ i = RevisionLimit + 1
          /\ new_project_tag = RevisionTag(last_frida_tag, i)

C3_Witness ==
    /\ Decided
    /\ Release
    /\ AllRevisionsTaken
    /\ i = RevisionLimit + 1
    /\ new_project_tag = RevisionTag(github_latest, RevisionLimit + 1)

(***************************************************************************)
(* C4: NEW_TAG.txt is written if and only if needs_update or the force     *)
(* flag holds, and then holds exactly the new tag, the next free revision  *)
(* of the upstream tag.                                                    *)
(***************************************************************************)
C4_Marker ==
    /\ ~MarkerStepDone => ~HasMarker
    /\ MarkerStepDone =>
          /\ HasMarker <=> (\/ github_latest # BaseVersion(last_project_tag)
                            \/ FORCE_RELEASE \in {"true", "TRUE", "True"})
          /\ HasMarker =>
                cwd[NEW_TAG_txt] = RevisionTag(github_latest, FirstFree(github_latest))

C4_Witness ==
    /\ pc = "done"
    /\ force_release
    /\ ~needs_update
    /\ HasMarker
    /\ cwd[NEW_TAG_txt] = RevisionTag(Tag_16_1_4, 2)

(***************************************************************************)
(* C5: sort_tags orders by the integer components left to right ("1.10"    *)
(* behind "1.9" and "1.2", a tag behind its proper component prefix), and  *)
(* the latest local tag is a greatest tag of the repository in that        *)
(* order, or '' when there is none.                                        *)
(***************************************************************************)
C5_Sort ==
    /\ sort_tags(<<Tag_1_2, Tag_1_10, Tag_1_9>>) = <<Tag_1_2, Tag_1_9, Tag_1_10>>
    /\ sort_tags(<<RevisionTag(Tag_1_10, 1), Tag_1_10>>)
          = <<Tag_1_10, RevisionTag(Tag_1_10, 1)>>
    /\ \A sorted \in {sort_tags(exec_git_command(<<>>))} :
       \A key \in {[k \in 1..Len(sorted) |-> SortKey(sorted[k])]} :
          /\ Len(sorted) = Cardinality(git_tags)
          /\ ToSet(sorted) = git_tags
          /\ \A k \in 1..(Len(sorted) - 1) :
                \/ /\ Len(key[k]) <= Len(key[k + 1])
                   /\ \A m \in 1..Len(key[k]) : key[k][m] = key[k + 1][m]
                \/ \E m \in 1..Len(key[k]) :
                      /\ m <= Len(key[k + 1])
                      /\ key[k][m] < key[k + 1][m]
                      /\ \A q \in 1..(m - 1) : key[k][q] = key[k + 1][q]
          /\ Decided =>
                IF git_tags = {} THEN last_project_tag = <<>>
                ELSE \E k \in 1..Len(sorted) :
                        /\ last_project_tag = sorted[k]
                        /\ \A m \in 1..Len(sorted) : key[m] = key[k] \/ m < k

C5_Witness ==
    /\ pc = "do_build"
    /\ git_tags = {Tag_1_2, Tag_1_9, Tag_1_10}
    /\ last_project_tag = Tag_1_10

(***************************************************************************)
(* C6: when an architecture task has failed, do_build raises that task's   *)
(* error, no archive is packaged and no update metadata written in the     *)
(* run, and the staging tree and the download cache stay as they are.      *)
(***************************************************************************)
C6_Abort ==
    /\ (\E a \in Archs : Failed(a)) =>
          /\ pc \in {"as_completed", "raised"}
          /\ DOMAIN build_dir = {}
          /\ build_tmp # NoDir
          /\ ModulePropPath \in DOMAIN build_tmp
    /\ (\E a \in seen : Failed(a)) => pc = "raised"
    /\ pc = "raised" =>
          /\ raised # NoException
          /\ raised.arch \in seen
          /\ raised = task_exc[raised.arch]
          /\ \A a \in Archs :
                /\ (task[a] = "finished" /\ ~Failed(a)) =>
                      /\ DestPath(a) \in DOMAIN build_tmp
                      /\ FridaServerXz(last_frida_tag, a) \in DOMAIN downloads
                /\ task_exc[a].type = "LZMAError" =>
                      FridaServerXz(last_frida_tag, a) \in DOMAIN downloads

C6_Witness ==
    /\ pc = "raised"
    /\ raised.type = "HTTPError"
    /\ \E a \in Archs : DestPath(a) \in DOMAIN build_tmp
    /\ \E a \in Archs : task_exc[a].type = "LZMAError"
    /\ DOMAIN build_dir = {}

(***************************************************************************)
(* C7: each task writes its own cache file and its own staging file, the   *)
(* archive is packaged only after all four tasks have completed, and in    *)
(* every interleaving a build without a failure packages exactly one       *)
(* binary per architecture, the decompressed payload of that architecture. *)
(***************************************************************************)
C7_Tasks ==
    /\ \A n \in DOMAIN downloads :
          \E a \in Archs :
             /\ n = FridaServerXz(github_latest, a)
             /\ downloads[n] \in {ReleaseAsset(DownloadUrl(github_latest, a)), Garbage}
    /\ \A p \in FilesOf(build_tmp) :
          \/ p \in DOMAIN BaseModule
          \/ \E a \in Archs :
                /\ p = DestPath(a)
                /\ task[a] = "finished"
                /\ ~Failed(a)
                /\ build_tmp[p] = Binary(a)
    /\ \A a \in Archs :
          (task[a] = "finished" /\ ~Failed(a) /\ build_tmp # NoDir)
             => DestPath(a) \in DOMAIN build_tmp
    /\ pc \in {"create_updater_json", "done"} =>
          /\ \A a \in Archs : task[a] = "finished" /\ ~Failed(a)
          /\ HasZip
          /\ \A zip \in {build_dir[ZipName(new_project_tag)]} :
                /\ FilesOf(zip.entries) = {DestPath(a) : a \in Archs}
                /\ Cardinality(FilesOf(zip.entries)) = Cardinality(Archs)
                /\ \A a \in Archs : zip.entries[DestPath(a)] = Binary(a)

C7_Witness ==
    /\ pc = "done"
    /\ HasZip
    /\ Cardinality(FilesOf(build_dir[ZipName(new_project_tag)].entries)) = 4
    /\ build_dir[ZipName(new_project_tag)].entries[DestPath("x86_64")]
          = [kind |-> "elf", tag |-> Tag_16_1_4, arch |-> "x86_64"]

(***************************************************************************)
(* C8: the version code is the integer read from the components of the     *)
(* tag, each written with two digits at least, one after the other         *)
(* ("16.1.4" gives 160104), and module.prop and updater.json carry the     *)
(* same code for the release tag.                                          *)
(***************************************************************************)
C8_VersionCode ==
    /\ generate_version_code(Tag_16_1_4) = 160104
    /\ \A code \in {PaddedCode(SortKey(new_project_tag))} :
          /\ build_tmp # NoDir =>
                /\ build_tmp[ModulePropPath].version = new_project_tag
                /\ build_tmp[ModulePropPath].versionCode = code
          /\ HasZip =>
                \A zip \in {build_dir[ZipName(new_project_tag)]} :
                   /\ zip.entries[ModulePropPath].version = new_project_tag
                   /\ zip.entries[ModulePropPath].versionCode = code
          /\ HasUpdater =>
                /\ build_dir[UpdaterJson].version = new_project_tag
                /\ build_dir[UpdaterJson].versionCode = code
                /\ HasZip
                /\ build_dir[UpdaterJson].versionCode
                      = build_dir[ZipName(new_project_tag)].entries[ModulePropPath].versionCode

C8_Witness ==
    /\ pc = "done"
    /\ new_project_tag = RevisionTag(Tag_1_100, 2)
    /\ build_dir[UpdaterJson].versionCode = 110002
    /\ build_dir[ZipName(new_project_tag)].entries[ModulePropPath].versionCode = 110002

(***************************************************************************)
(* C9: when a release is decided NEW_TAG.txt is written before the build   *)
(* starts and stays as written, so a run in which an architecture task     *)
(* then fails ends with the marker holding the new tag and with neither    *)
(* archive nor update metadata.                                            *)
(***************************************************************************)
C9_MarkerOutlivesFailure ==
    /\ (Release /\ pc \in {"do_build", "as_completed", "create_updater_json",
                           "done", "raised"}) =>
          /\ HasMarker
          /\ cwd[NEW_TAG_txt] = new_project_tag
          /\ new_project_tag # Sentinel
    /\ pc \in {"main", "get_next_revision", "write_marker", "do_build"} =>
          /\ build_tmp = NoDir
          /\ \A a \in Archs : task[a] = "unsubmitted"
    /\ (Release /\ pc = "raised") =>
          /\ \E a \in Archs : Failed(a)
          /\ ~HasZip
          /\ ~HasUpdater

C9_Witness ==
    /\ pc = "raised"
    /\ Release
    /\ \A a \in Archs : task[a] = "finished"
    /\ HasMarker
    /\ cwd[NEW_TAG_txt] = RevisionTag(Tag_16_1_4, 1)
    /\ DOMAIN build_dir = {}

(***************************************************************************)
(* C10: the build runs whether or not a release is decided: without one,   *)
(* do_build gets the tag "0", writes no marker, and the archive and the    *)
(* metadata it produces carry version "0" and versionCode 0.               *)
(***************************************************************************)
C10_SentinelBuild ==
    /\ pc = "done" => (HasZip /\ HasUpdater)
    /\ (Decided /\ ~Release) =>
          /\ new_project_tag = Sentinel
          /\ ~HasMarker
          /\ pc \in {"do_build", "as_completed", "create_updater_json",
                     "done", "raised"}
          /\ build_tmp # NoDir =>
                /\ build_tmp[ModulePropPath].version = Sentinel
                /\ build_tmp[ModulePropPath].versionCode = 0
          /\ pc = "done" =>
                /\ DOMAIN build_dir = {ZipName(Sentinel), UpdaterJson}
                /\ build_dir[ZipName(Sentinel)].entries[ModulePropPath].version = Sentinel
                /\ build_dir[ZipName(Sentinel)].entries[ModulePropPath].versionCode = 0
                /\ build_dir[UpdaterJson].version = Sentinel
                /\ build_dir[UpdaterJson].versionCode = 0

C10_Witness ==
    /\ pc = "done"
    /\ ~Release
    /\ ~HasMarker
    /\ last_project_tag = RevisionTag(Tag_16_1_4, 1)
    /\ build_dir[UpdaterJson].version = Sentinel
    /\ build_dir[UpdaterJson].versionCode = 0

=============================================================================
